---------------------------- MODULE Spec2Model ----------------------------
(***************************************************************************)
(* K-browser (src/app.js, second BrowserState variant, lines 445-1237):    *)
(* a tabbed page host.  Each tab owns a back/forward history and an        *)
(* iframe whose load outcome is watched by a load listener, an error       *)
(* listener and three kinds of timers (deadline 10 s, settle 500 ms,       *)
(* re-check 2 s).                                                          *)
(*                                                                         *)
(* Text (URLs, titles, address-bar input) is a sequence of one-character   *)
(* strings.  The JS value null / '' of a URL is the empty sequence; the    *)
(* JS value null of activeTabId is NoTab.                                  *)
(***************************************************************************)
EXTENDS Integers, Sequences, FiniteSets, TLC

(***************************************************************************)
(* Bounds of the model (not program constants).                            *)
(***************************************************************************)
\* largest number of events (user actions, iframe signals, timer expiries,
\* clock ticks) in a run
MaxSteps == 6

(***************************************************************************)
(* Program constants.                                                      *)
(***************************************************************************)
\* BrowserState.maxTabs
maxTabs == 3

NoTab == -1
NoUrl == << >>

(***************************************************************************)
(* Text helpers.                                                           *)
(***************************************************************************)
HttpPrefix == <<"h","t","t","p",":","/","/">>
HttpsPrefix == <<"h","t","t","p","s",":","/","/">>
AboutBlank == <<"a","b","o","u","t",":","b","l","a","n","k">>
DefaultUrl == <<"h","t","t","p","s",":","/","/","w","w","w",".","g","o","o","g","l","e",".","c","o","m">>
SearchPrefix == DefaultUrl \o <<"/","s","e","a","r","c","h","?","q","=">>
NewTabTitle == <<"N","e","w"," ","T","a","b">>
UntitledTitle == <<"U","n","t","i","t","l","e","d">>
NavigatingTitle == <<"N","a","v","i","g","a","t","i","n","g",".",".",".">>

\* a UTF-16 code unit in D800-DFFF with no partner: a JS string may hold it
LoneSurrogate == "U+D800"

\* characters matched by /\s/ and removed by String.prototype.trim
Whitespace == {" ", "\t", "\n"}

\* String.prototype.startsWith
StartsWith(s, p) == Len(s) >= Len(p) /\ SubSeq(s, 1, Len(p)) = p

\* String.prototype.includes for a single character
Includes(s, c) == \E i \in 1..Len(s) : s[i] = c

\* /\s/.test(string)
HasWhitespace(s) == \E i \in 1..Len(s) : s[i] \in Whitespace

RECURSIVE TrimStart(_)
TrimStart(s) ==
    IF s # << >> /\ Head(s) \in Whitespace THEN TrimStart(Tail(s)) ELSE s

RECURSIVE TrimEnd(_)
TrimEnd(s) ==
    IF s # << >> /\ s[Len(s)] \in Whitespace
    THEN TrimEnd(SubSeq(s, 1, Len(s) - 1))
    ELSE s

\* String.prototype.trim
Trim(s) == TrimEnd(TrimStart(s))

\* the characters that end the host part of a URL
HostEnd == {"/", "?", "#"}

RECURSIVE TakeHost(_)
TakeHost(s) ==
    IF s = << >> \/ Head(s) \in HostEnd THEN << >> ELSE <<Head(s)>> \o TakeHost(Tail(s))

\* what follows "http://" or "https://" in s
AfterScheme(s) ==
    IF StartsWith(s, HttpsPrefix) THEN SubSeq(s, Len(HttpsPrefix) + 1, Len(s))
    ELSE IF StartsWith(s, HttpPrefix) THEN SubSeq(s, Len(HttpPrefix) + 1, Len(s))
    ELSE << >>

\* host code points the URL parser refuses (a lone surrogate reaches it as
\* U+FFFD, which no domain may hold)
ForbiddenHost ==
    Whitespace \cup {"%", "<", ">", "^", "|", "[", "]", ":", "@", LoneSurrogate}

\* new URL(s) does not throw, for s carrying an http(s) scheme: the host is
\* not empty and holds no forbidden code point
URLParses(s) ==
    /\ StartsWith(s, HttpPrefix) \/ StartsWith(s, HttpsPrefix)
    /\ TakeHost(AfterScheme(s)) # << >>
    /\ \A i \in 1..Len(TakeHost(AfterScheme(s))) :
          TakeHost(AfterScheme(s))[i] \notin ForbiddenHost

\* new URL(s).hostname
Hostname(s) == TakeHost(AfterScheme(s))

\* characters encodeURIComponent leaves alone
Unreserved ==
    {"a","b","c","d","e","f","g","h","i","j","k","l","m","n","o","p","q","r",
     "s","t","u","v","w","x","y","z","0","1","2","3","4","5","6","7","8","9",
     "-","_",".","!","~","*","'","(",")"}

EncodeChar(c) ==
    IF c \in Unreserved THEN <<c>>
    ELSE IF c = " " THEN <<"%","2","0">>
    ELSE IF c = "\t" THEN <<"%","0","9">>
    ELSE IF c = "\n" THEN <<"%","0","A">>
    ELSE IF c = ":" THEN <<"%","3","A">>
    ELSE IF c = "/" THEN <<"%","2","F">>
    ELSE IF c = "?" THEN <<"%","3","F">>
    ELSE IF c = "#" THEN <<"%","2","3">>
    ELSE IF c = "%" THEN <<"%","2","5">>
    ELSE IF c = "=" THEN <<"%","3","D">>
    ELSE IF c = "@" THEN <<"%","4","0">>
    ELSE <<"%","3","F">>

\* what stands for a URIError thrown; no text equals it
URIError == << "URIError: URI malformed" >>

RECURSIVE EncodeAll(_)
EncodeAll(s) ==
    IF s = << >> THEN << >> ELSE EncodeChar(Head(s)) \o EncodeAll(Tail(s))

\* encodeURIComponent(s): throws on a lone surrogate
EncodeURIComponent(s) ==
    IF Includes(s, LoneSurrogate) THEN URIError ELSE EncodeAll(s)

isValidUrl(string) ==
    IF StartsWith(string, HttpPrefix) \/ StartsWith(string, HttpsPrefix)
    THEN URLParses(string)
    ELSE IF Includes(string, ".") /\ ~Includes(string, " ") /\ ~HasWhitespace(string)
    THEN URLParses(HttpsPrefix \o string)
    ELSE FALSE

sanitizeUrl(input) ==
    LET t == Trim(input) IN
    IF t = << >> THEN DefaultUrl
    ELSE IF StartsWith(t, HttpPrefix) \/ StartsWith(t, HttpsPrefix) THEN t
    ELSE IF isValidUrl(t) THEN HttpsPrefix \o t
    ELSE IF EncodeURIComponent(t) = URIError THEN URIError
    ELSE SearchPrefix \o EncodeURIComponent(t)

(***************************************************************************)
(* State.                                                                  *)
(***************************************************************************)
VARIABLES
    tabs,         \* browserState.tabs: sequence of tab records, display order
    activeTabId,  \* browserState.activeTabId, NoTab for null
    detached,     \* iframes removed from the document that still own timers
    now,          \* Date.now()
    ui,           \* the viewport elements the handlers write
    last,         \* history variable: the handler that ran last and its result
    steps         \* history variable: number of events so far

vars == <<tabs, activeTabId, detached, now, ui, last, steps>>

\* inputs a user types into the address bar (or a quick link carries)
RawInputs == { <<"a",".","b">>, <<"h","t","t","p",":","/","/","c">> }

\* document.title values an inspected page may report ('' when it has none)
DocTitles == { << >>, <<"T">> }

\* tab.iframe = null
NoFrame ==
    [exists |-> FALSE, owner |-> NoTab, src |-> NoUrl, display |-> "none",
     hasLoaded |-> FALSE, propHasLoaded |-> FALSE, inflight |-> FALSE,
     navigated |-> FALSE,
     loadTimeout |-> << >>, settle |-> << >>, recheck |-> << >>]

\* the iframe createTabIframe builds for the tab with id `id`, with its
\* closure variables loadTimeout and hasLoaded; `settle` and `recheck` are the
\* pending setTimeout callbacks of the load listener, oldest first; `inflight`
\* says the surface has a load in progress that has not signalled yet, and
\* `navigated` (a history variable) that navigateToUrl started the last load
createTabIframe(id) ==
    [NoFrame EXCEPT !.exists = TRUE, !.owner = id]

\* number of timer callbacks an iframe has pending
FrameTimers(f) == Len(f.loadTimeout) + Len(f.settle) + Len(f.recheck)

(***************************************************************************)
(* class BrowserState (src/app.js 446-545).  Each method is an operator    *)
(* from the tabs (and activeTabId) before the call to those after it.      *)
(***************************************************************************)
\* this.tabs.findIndex(t => t.id === tabId) + 1; 0 when there is none
FindIndex(ts, tabId) ==
    IF \E i \in 1..Len(ts) : ts[i].id = tabId
    THEN CHOOSE i \in 1..Len(ts) :
            ts[i].id = tabId /\ \A j \in 1..(i - 1) : ts[j].id # tabId
    ELSE 0

\* the tab id built from the clock: `tab-${Date.now()}`
TabIdAt(t) == t

\* mutant: the capacity check lets one tab too many in
AddTabRejects_offByOne(ts) == Len(ts) > maxTabs

\* the guard of BrowserState.addTab
AddTabRejects(ts) == Len(ts) >= maxTabs

NewTab(url, t) ==
    [id |-> TabIdAt(t), title |-> NewTabTitle,
     url |-> IF url = NoUrl THEN AboutBlank ELSE url,
     iframe |-> NoFrame, history |-> << >>, historyIndex |-> -1]

\* BrowserState.addTab: [ok, tabs, id]; ok = FALSE stands for `return null`
BrowserState_addTab(ts, url, t) ==
    IF AddTabRejects(ts)
    THEN [ok |-> FALSE, tabs |-> ts, id |-> NoTab]
    ELSE [ok |-> TRUE, tabs |-> Append(ts, NewTab(url, t)), id |-> TabIdAt(t)]

\* this.tabs.splice(index, 1)
Splice(ts, index) ==
    SubSeq(ts, 1, index - 1) \o SubSeq(ts, index + 1, Len(ts))

\* mutant: the replacement is the last remaining tab, not the first
ReplacementActive_last(ts) == IF Len(ts) > 0 THEN ts[Len(ts)].id ELSE NoTab

\* the replacement active tab removeTab picks
ReplacementActive(ts) == IF Len(ts) > 0 THEN ts[1].id ELSE NoTab

\* mutant: removeTab forgets to re-point activeTabId
removeTab_keepsActive(ts, active, tabId) ==
    LET index == FindIndex(ts, tabId) IN
    IF index # 0
    THEN [tabs |-> Splice(ts, index), activeTabId |-> active,
          removed |-> ts[index].iframe]
    ELSE [tabs |-> ts, activeTabId |-> active, removed |-> NoFrame]

\* mutant: no `index !== -1` guard, so splice(-1, 1) takes the last tab out
removeTab_noGuard(ts, active, tabId) ==
    LET index == IF FindIndex(ts, tabId) # 0 THEN FindIndex(ts, tabId) ELSE Len(ts) IN
    IF index # 0
    THEN [tabs |-> Splice(ts, index),
          activeTabId |-> IF active = tabId
                          THEN ReplacementActive(Splice(ts, index))
                          ELSE active,
          removed |-> ts[index].iframe]
    ELSE [tabs |-> ts, activeTabId |-> active, removed |-> NoFrame]

\* BrowserState.removeTab: [tabs, activeTabId, removed], `removed` being the
\* iframe taken out of the document (NoFrame when there was none)
BrowserState_removeTab(ts, active, tabId) ==
    LET index == FindIndex(ts, tabId) IN
    IF index # 0
    THEN [tabs |-> Splice(ts, index),
          activeTabId |-> IF active = tabId
                          THEN ReplacementActive(Splice(ts, index))
                          ELSE active,
          removed |-> ts[index].iframe]
    ELSE [tabs |-> ts, activeTabId |-> active, removed |-> NoFrame]

\* BrowserState.getActiveTab, as an index into tabs (0 for undefined)
getActiveTab(ts, active) == FindIndex(ts, active)

\* mutant: updateTabUrl writes nothing
updateTabUrl_noop(ts, tabId, url) == ts

BrowserState_updateTabUrl(ts, tabId, url) ==
    LET i == FindIndex(ts, tabId) IN
    IF i # 0 THEN [ts EXCEPT ![i].url = url] ELSE ts

BrowserState_updateTabTitle(ts, tabId, title) ==
    LET i == FindIndex(ts, tabId) IN
    IF i # 0
    THEN [ts EXCEPT ![i].title = IF title = << >> THEN UntitledTitle ELSE title]
    ELSE ts

\* mutant: the forward entries are kept
HistorySlice_keepAll(history, historyIndex) == history

\* tab.history.slice(0, tab.historyIndex + 1)
HistorySlice(history, historyIndex) ==
    SubSeq(history, 1, historyIndex + 1)

\* mutant: historyIndex is set to the length, one past the last entry
addToHistory_offByOne(ts, tabId, url) ==
    LET i == FindIndex(ts, tabId) IN
    IF i # 0
    THEN LET h == Append(HistorySlice(ts[i].history, ts[i].historyIndex), url)
         IN  [ts EXCEPT ![i].history = h, ![i].historyIndex = Len(h)]
    ELSE ts

\* mutant: one history shared by all tabs, every tab gets the entry
addToHistory_global(ts, tabId, url) ==
    [j \in 1..Len(ts) |->
        LET h == Append(HistorySlice(ts[j].history, ts[j].historyIndex), url)
        IN  [ts[j] EXCEPT !.history = h, !.historyIndex = Len(h) - 1]]

BrowserState_addToHistory(ts, tabId, url) ==
    LET i == FindIndex(ts, tabId) IN
    IF i # 0
    THEN LET h == Append(HistorySlice(ts[i].history, ts[i].historyIndex), url)
         IN  [ts EXCEPT ![i].history = h, ![i].historyIndex = Len(h) - 1]
    ELSE ts

\* mutant: going back is allowed from the first entry too
canGoBack_fromZero(ts, tabId) ==
    LET i == FindIndex(ts, tabId) IN
    IF i = 0 THEN FALSE ELSE ts[i].historyIndex >= 0

BrowserState_canGoBack(ts, tabId) ==
    LET i == FindIndex(ts, tabId) IN
    IF i = 0 THEN FALSE ELSE ts[i].historyIndex > 0

BrowserState_canGoForward(ts, tabId) ==
    LET i == FindIndex(ts, tabId) IN
    IF i = 0 THEN FALSE ELSE ts[i].historyIndex < Len(ts[i].history) - 1

\* tab.history[k] for a 0-based k; undefined (falsy, as NoUrl) out of range
HistoryAt(history, k) ==
    IF k + 1 \in 1..Len(history) THEN history[k + 1] ELSE NoUrl

\* BrowserState.goBack: [tabs, url]; url = NoUrl stands for `return null`
BrowserState_goBack(ts, tabId) ==
    LET i == FindIndex(ts, tabId) IN
    IF i # 0 /\ BrowserState_canGoBack(ts, tabId)
    THEN [tabs |-> [ts EXCEPT ![i].historyIndex = @ - 1],
          url |-> HistoryAt(ts[i].history, ts[i].historyIndex - 1)]
    ELSE [tabs |-> ts, url |-> NoUrl]

\* mutant: goForward returns the next entry without moving the position
goForward_noMove(ts, tabId) ==
    LET i == FindIndex(ts, tabId) IN
    IF i # 0 /\ ts[i].historyIndex < Len(ts[i].history) - 1
    THEN [tabs |-> ts, url |-> HistoryAt(ts[i].history, ts[i].historyIndex + 1)]
    ELSE [tabs |-> ts, url |-> NoUrl]

\* BrowserState.goForward: [tabs, url]; url = NoUrl stands for `return null`
BrowserState_goForward(ts, tabId) ==
    LET i == FindIndex(ts, tabId) IN
    IF i # 0 /\ BrowserState_canGoForward(ts, tabId)
    THEN [tabs |-> [ts EXCEPT ![i].historyIndex = @ + 1],
          url |-> HistoryAt(ts[i].history, ts[i].historyIndex + 1)]
    ELSE [tabs |-> ts, url |-> NoUrl]

(***************************************************************************)
(* View helpers (src/app.js 605-643).  They map the ui record to the ui    *)
(* record after the call.                                                  *)
(***************************************************************************)
NoMessage == [kind |-> "none", host |-> << >>]

showLoading(u) == [u EXCEPT !.loading = TRUE]

hideLoading(u) == [u EXCEPT !.loading = FALSE]

showWelcomeScreen(u) ==
    [u EXCEPT !.welcome = "flex", !.container = "none", !.error = "none"]

hideWelcomeScreen(u) ==
    [u EXCEPT !.welcome = "none", !.container = "block"]

\* mutant: showError does not store the URL on the panel
showError_noUrl(u, message, url) ==
    [u EXCEPT !.error = "flex", !.errorText = message,
              !.container = "none", !.welcome = "none"]

\* showError(message, url): the panel, its text and dataset.url
showError(u, message, url) ==
    [u EXCEPT !.error = "flex", !.errorText = message,
              !.container = "none", !.welcome = "none",
              !.errorUrl = IF url # NoUrl THEN url ELSE @]

\* mutant: hideError leaves the panel as it is
hideError_keepsPanel(u) == u

hideError(u) == [u EXCEPT !.error = "none"]

\* the state the three functions below thread through a handler
World == [tabs |-> tabs, activeTabId |-> activeTabId, ui |-> ui]

updateNavButtons(w) ==
    LET i == getActiveTab(w.tabs, w.activeTabId) IN
    IF i # 0
    THEN [w EXCEPT
            !.ui.backDisabled = ~BrowserState_canGoBack(w.tabs, w.tabs[i].id),
            !.ui.forwardDisabled = ~BrowserState_canGoForward(w.tabs, w.tabs[i].id)]
    ELSE [w EXCEPT !.ui.backDisabled = TRUE, !.ui.forwardDisabled = TRUE]

\* mutant: switchTab hides no iframe
HideAllIframes_none(ts) == ts

\* document.querySelectorAll('iframe').forEach(display = 'none')
HideAllIframes(ts) ==
    [i \in 1..Len(ts) |->
        IF ts[i].iframe.exists
        THEN [ts[i] EXCEPT !.iframe.display = "none"]
        ELSE ts[i]]

switchTab(w, tabId) ==
    LET w1 == [w EXCEPT !.activeTabId = tabId,
                        !.tabs = HideAllIframes(w.tabs)]
        i == getActiveTab(w1.tabs, w1.activeTabId)
    IN
    IF i = 0 THEN w1
    ELSE
      LET w2 == [w1 EXCEPT !.ui.addressBar = w1.tabs[i].url] IN
      IF w2.tabs[i].iframe.exists
      THEN updateNavButtons(
             [w2 EXCEPT !.tabs[i].iframe.display = "block",
                        !.ui = hideWelcomeScreen(@)])
      ELSE IF w2.tabs[i].url # NoUrl /\ w2.tabs[i].url # AboutBlank
      THEN updateNavButtons(
             [w2 EXCEPT !.tabs[i].iframe =
                            [createTabIframe(w2.tabs[i].id) EXCEPT
                                !.src = w2.tabs[i].url, !.inflight = TRUE,
                                !.display = "block"],
                        !.ui = hideWelcomeScreen(@)])
      ELSE updateNavButtons([w2 EXCEPT !.ui = showWelcomeScreen(@)])

\* history variable: a new navigate supersedes the callbacks still pending
MarkStale(timers) == [k \in 1..Len(timers) |-> [timers[k] EXCEPT !.stale = TRUE]]

\* history variable: a new load of the iframe (navigateToUrl, goBack,
\* goForward, reload) starts while callbacks of an earlier load are pending
MarkOld(timers) == [k \in 1..Len(timers) |-> [timers[k] EXCEPT !.old = TRUE]]

\* iframe._hasLoaded = false (navigateToUrl 933): what the reset writes to
ResetLoadState(f) == [f EXCEPT !.propHasLoaded = FALSE]

\* startLoadTimeout(url): clearTimeout(loadTimeout), then a new 10 s timer
startLoadTimeout(f, url) == [f EXCEPT !.loadTimeout = << [url |-> url] >>]

navigateToUrl(w, url) ==
    LET i == getActiveTab(w.tabs, w.activeTabId) IN
    IF i = 0 THEN w
    ELSE IF sanitizeUrl(url) = URIError THEN w  \* the exception ends the handler
    ELSE
      LET sanitizedUrl == sanitizeUrl(url)
          id == w.tabs[i].id
          t1 == BrowserState_updateTabUrl(w.tabs, id, sanitizedUrl)
          t2 == BrowserState_addToHistory(t1, id, sanitizedUrl)
          t3 == BrowserState_updateTabTitle(t2, id,
                   IF URLParses(sanitizedUrl) THEN Hostname(sanitizedUrl)
                   ELSE NavigatingTitle)
          w1 == updateNavButtons(
                   [w EXCEPT !.tabs = t3, !.ui.addressBar = sanitizedUrl])
          f0 == IF w1.tabs[i].iframe.exists THEN w1.tabs[i].iframe
                ELSE createTabIframe(id)
          f1 == startLoadTimeout(ResetLoadState([f0 EXCEPT !.display = "block"]),
                                 sanitizedUrl)
          f2 == [f1 EXCEPT !.src = sanitizedUrl, !.inflight = TRUE,
                           !.navigated = TRUE,
                           !.settle = MarkOld(MarkStale(@)),
                           !.recheck = MarkOld(MarkStale(@))]
      IN [w1 EXCEPT !.tabs[i].iframe = f2,
                    !.ui = hideWelcomeScreen(hideError(showLoading(@)))]

\* goBack(): the click handler of backBtn
goBack(w) ==
    LET i == getActiveTab(w.tabs, w.activeTabId) IN
    IF i = 0 THEN w
    ELSE IF ~w.tabs[i].iframe.exists THEN w
    ELSE IF BrowserState_canGoBack(w.tabs, w.tabs[i].id)
    THEN LET r == BrowserState_goBack(w.tabs, w.tabs[i].id) IN
         IF r.url # NoUrl
         THEN updateNavButtons(
                [w EXCEPT !.tabs = BrowserState_updateTabUrl(
                                      [r.tabs EXCEPT ![i].iframe.src = r.url,
                                                     ![i].iframe.inflight = TRUE,
                                                     ![i].iframe.navigated = FALSE,
                                                     ![i].iframe.settle = MarkOld(@),
                                                     ![i].iframe.recheck = MarkOld(@)],
                                      r.tabs[i].id, r.url),
                          !.ui = [showLoading(@) EXCEPT !.addressBar = r.url]])
         ELSE [w EXCEPT !.tabs = r.tabs]
    ELSE w  \* iframe.contentWindow.history.back(): not reached, backBtn is disabled

\* goForward(): the click handler of forwardBtn
goForward(w) ==
    LET i == getActiveTab(w.tabs, w.activeTabId) IN
    IF i = 0 THEN w
    ELSE IF ~w.tabs[i].iframe.exists THEN w
    ELSE IF BrowserState_canGoForward(w.tabs, w.tabs[i].id)
    THEN LET r == BrowserState_goForward(w.tabs, w.tabs[i].id) IN
         IF r.url # NoUrl
         THEN updateNavButtons(
                [w EXCEPT !.tabs = BrowserState_updateTabUrl(
                                      [r.tabs EXCEPT ![i].iframe.src = r.url,
                                                     ![i].iframe.inflight = TRUE,
                                                     ![i].iframe.navigated = FALSE,
                                                     ![i].iframe.settle = MarkOld(@),
                                                     ![i].iframe.recheck = MarkOld(@)],
                                      r.tabs[i].id, r.url),
                          !.ui = [showLoading(@) EXCEPT !.addressBar = r.url]])
         ELSE [w EXCEPT !.tabs = r.tabs]
    ELSE w

\* reload(): the click handler of reloadBtn
reload(w) ==
    LET i == getActiveTab(w.tabs, w.activeTabId) IN
    IF i = 0 THEN w
    ELSE IF ~w.tabs[i].iframe.exists THEN w
    ELSE [w EXCEPT !.ui = showLoading(@), !.tabs[i].iframe.inflight = TRUE,
                   !.tabs[i].iframe.navigated = FALSE,
                   !.tabs[i].iframe.settle = MarkOld(@),
                   !.tabs[i].iframe.recheck = MarkOld(@)]

\* mutant: closeTab closes the sole tab too
CloseTabRefuses_never(ts) == Len(ts) = 0

\* whether closeTab refuses to act
CloseTabRefuses(ts) == Len(ts) = 1

\* closeTab(tabId), without the bookkeeping of the removed iframe
closeTab(w, tabId) ==
    IF CloseTabRefuses(w.tabs) THEN w
    ELSE
      LET r == BrowserState_removeTab(w.tabs, w.activeTabId, tabId)
          w1 == [w EXCEPT !.tabs = r.tabs, !.activeTabId = r.activeTabId]
      IN
      IF w1.activeTabId # NoTab THEN switchTab(w1, w1.activeTabId)
      ELSE IF Len(w1.tabs) > 0 THEN switchTab(w1, w1.tabs[1].id)
      ELSE [w1 EXCEPT !.ui = showWelcomeScreen(@)]

\* addTab(url) for the only argument its callers pass, none ('' in initBrowser)
addTab(w, t) ==
    LET r == BrowserState_addTab(w.tabs, NoUrl, t) IN
    IF ~r.ok THEN w
    ELSE switchTab([w EXCEPT !.tabs = r.tabs, !.activeTabId = r.id], r.id)

(***************************************************************************)
(* The listeners and timer callbacks createTabIframe installs (686-790).   *)
(* Each maps the world w and the iframe f it closes over to [w, f] after   *)
(* the callback.  `attached` says f is still in the document: a removed    *)
(* iframe has no contentWindow and no contentDocument.                     *)
(***************************************************************************)
\* what an inspection of the iframe's content can find
Inspections ==
    { [kind |-> "doc", title |-> t] : t \in DocTitles }
      \cup { [kind |-> "window", title |-> << >>],
             [kind |-> "refused", title |-> << >>] }

\* what the load and error listeners do to the closure variable hasLoaded
MarkLoaded(f) == [f EXCEPT !.hasLoaded = TRUE]

\* mutant: the listeners leave the deadline pending
ClearLoadTimeout_keeps(f) == f

\* clearTimeout(loadTimeout); loadTimeout = null
ClearLoadTimeout(f) == [f EXCEPT !.loadTimeout = << >>]

\* history variable: the deadline of the load expired and its callback acted
\* before any signal came (the listeners cancel a pending deadline, and the
\* first signal sets hasLoaded)
TimedOutBefore(f) == f.loadTimeout = << >> /\ ~f.hasLoaded /\ f.navigated

\* iframe 'load' listener (686-763), up to the setTimeout(..., 500)
onLoad(w, f) ==
    [w |-> [w EXCEPT !.ui = hideLoading(@)],
     f |-> [ClearLoadTimeout(MarkLoaded(f)) EXCEPT
              !.inflight = FALSE,
              !.settle = Append(@, [stale |-> FALSE, nav |-> f.navigated,
                                    old |-> FALSE,
                                    late |-> TimedOutBefore(f)])]]

\* iframe 'error' listener (766-774)
onError(w, f) ==
    [w |-> [w EXCEPT !.ui = showError(hideLoading(@),
                                      [kind |-> "failed", host |-> << >>], f.src)],
     f |-> [ClearLoadTimeout(MarkLoaded(f)) EXCEPT !.inflight = FALSE]]

\* the guard of the deadline callback: `if (!hasLoaded)`
DeadlineActs(f) == ~f.hasLoaded

\* the 10 s callback of startLoadTimeout (779-789)
onLoadTimeout(w, f) ==
    LET url == f.loadTimeout[1].url IN
    [w |-> IF DeadlineActs(f)
           THEN [w EXCEPT !.ui = showError(hideLoading(@),
                                   [kind |-> "slow",
                                    host |-> IF URLParses(url) THEN Hostname(url)
                                             ELSE << >>],
                                   url)]
           ELSE w,
     f |-> [f EXCEPT !.loadTimeout = << >>]]

\* the 500 ms callback of the load listener (697-762)
onSettle(w, f, attached, insp) ==
    LET e == Head(f.settle)
        f1 == [f EXCEPT !.settle = Tail(@)]
    IN
    IF attached /\ insp.kind = "doc" /\ (insp.title # << >> \/ URLParses(f.src))
    THEN [w |-> [w EXCEPT !.ui = hideError(@),
                          !.tabs = BrowserState_updateTabTitle(@, f.owner,
                                     IF insp.title # << >> THEN insp.title
                                     ELSE Hostname(f.src))],
          f |-> f1]
    ELSE IF ~URLParses(f.src)
    THEN [w |-> [w EXCEPT !.ui = showError(@,
                                   [kind |-> "failedEmbed", host |-> << >>], f.src)],
          f |-> f1]
    ELSE IF attached /\ insp.kind = "window"
    THEN [w |-> [w EXCEPT !.ui = hideError(@),
                          !.tabs = BrowserState_updateTabTitle(@, f.owner,
                                                               Hostname(f.src))],
          f |-> f1]
    ELSE [w |-> w,
          f |-> [f1 EXCEPT !.recheck =
                    Append(@, [host |-> Hostname(f.src), stale |-> e.stale,
                               nav |-> e.nav, old |-> e.old])]]

\* the 2 s callback of the settle callback (741-758)
onRecheck(w, f, attached, insp) ==
    LET e == Head(f.recheck)
        f1 == [f EXCEPT !.recheck = Tail(@)]
    IN
    IF w.ui.error = "flex" THEN [w |-> w, f |-> f1]
    ELSE IF attached /\ insp.kind = "doc" THEN [w |-> w, f |-> f1]
    ELSE [w |-> [w EXCEPT !.ui = showError(@,
                                   [kind |-> "blocked", host |-> e.host], f.src)],
          f |-> f1]

(***************************************************************************)
(* Initial state: the page after DOMContentLoaded, that is after           *)
(* initBrowser (1215-1234) ran addTab('') on a fresh BrowserState.         *)
(***************************************************************************)
\* the elements as the handlers first find them
InitialUi ==
    [loading |-> FALSE, error |-> "none", errorText |-> NoMessage,
     errorUrl |-> NoUrl, welcome |-> "flex", container |-> "none",
     addressBar |-> << >>, backDisabled |-> TRUE, forwardDisabled |-> TRUE]

\* new BrowserState()
Constructed == [tabs |-> << >>, activeTabId |-> NoTab, ui |-> InitialUi]

\* the value of `last` after handler `op` ran for tab id `tab`: `ok` says it
\* acted (returned a value), `url` is the URL it handled, `stale` that it was a
\* callback of an attempt a later navigateToUrl superseded, `dropped` the
\* number of forward entries a push discarded, `prevActive` the active id
\* before the handler
Record(op, tab, ok, url, stale) ==
    [op |-> op, tab |-> tab, ok |-> ok, url |-> url, stale |-> stale,
     dropped |-> IF op \in {"addToHistory", "navigateToUrl", "retry"}
                    /\ FindIndex(tabs, tab) # 0
                 THEN Len(tabs[FindIndex(tabs, tab)].history)
                        - tabs[FindIndex(tabs, tab)].historyIndex - 1
                 ELSE 0,
     prevActive |-> activeTabId]

initBrowser == addTab(Constructed, 0)

Init ==
    /\ tabs = initBrowser.tabs
    /\ activeTabId = initBrowser.activeTabId
    /\ ui = initBrowser.ui
    /\ detached = << >>
    /\ now = 0
    /\ last = Record("initBrowser", NoTab, TRUE, NoUrl, FALSE)
    /\ steps = 0

(***************************************************************************)
(* Actions: one per event the page reacts to.                              *)
(***************************************************************************)
Commit(w) ==
    /\ tabs' = w.tabs
    /\ activeTabId' = w.activeTabId
    /\ ui' = w.ui

\* one more event, within the bound
Step ==
    /\ steps < MaxSteps
    /\ steps' = steps + 1

\* the removed iframes whose timers are still pending
Pending(fs) == SelectSeq(fs, LAMBDA f : FrameTimers(f) > 0)

\* the clock advances
Tick ==
    /\ Step
    /\ now' = now + 1
    /\ last' = Record("tick", NoTab, TRUE, NoUrl, FALSE)
    /\ UNCHANGED <<tabs, activeTabId, detached, ui>>

\* click on the "+" button: addTab()
AddTab ==
    /\ Commit(addTab(World, now))
    /\ Step
    /\ last' = Record("addTab",
                      BrowserState_addTab(tabs, NoUrl, now).id,
                      BrowserState_addTab(tabs, NoUrl, now).ok, NoUrl, FALSE)
    /\ UNCHANGED <<detached, now>>

\* click on the close button of the i-th tab element: closeTab(tab.id)
CloseTab(i) ==
    LET tabId == tabs[i].id
        removed == IF CloseTabRefuses(tabs) THEN NoFrame
                   ELSE BrowserState_removeTab(tabs, activeTabId, tabId).removed
    IN
    /\ Commit(closeTab(World, tabId))
    /\ detached' = Pending(Append(detached, [removed EXCEPT !.inflight = FALSE]))
    /\ Step
    /\ last' = Record("closeTab", tabId, ~CloseTabRefuses(tabs), NoUrl, FALSE)
    /\ UNCHANGED now

\* click on the i-th tab element: switchTab(tab.id)
SwitchTab(i) ==
    /\ Commit(switchTab(World, tabs[i].id))
    /\ Step
    /\ last' = Record("switchTab", tabs[i].id, TRUE, NoUrl, FALSE)
    /\ UNCHANGED <<detached, now>>

\* Enter in the address bar, or a quick link: navigateToUrl(text)
NavigateToUrl(raw) ==
    /\ Commit(navigateToUrl(World, raw))
    /\ Step
    /\ last' = Record("navigateToUrl", activeTabId, sanitizeUrl(raw) # URIError,
                      sanitizeUrl(raw), FALSE)
    /\ UNCHANGED <<detached, now>>

\* click on retryBtn, which the error panel holds (1205-1212)
Retry ==
    LET url == IF ui.errorUrl # NoUrl THEN ui.errorUrl ELSE ui.addressBar IN
    /\ ui.error = "flex"
    /\ url # NoUrl
    /\ Commit(navigateToUrl(World, url))
    /\ Step
    /\ last' = Record("retry", activeTabId, TRUE, sanitizeUrl(url), FALSE)
    /\ UNCHANGED <<detached, now>>

\* click on backBtn, possible while the button is enabled
GoBack ==
    /\ ~ui.backDisabled
    /\ Commit(goBack(World))
    /\ Step
    /\ last' = Record("goBack", activeTabId,
                      BrowserState_goBack(tabs, activeTabId).url # NoUrl,
                      BrowserState_goBack(tabs, activeTabId).url, FALSE)
    /\ UNCHANGED <<detached, now>>

\* click on forwardBtn, possible while the button is enabled
GoForward ==
    /\ ~ui.forwardDisabled
    /\ Commit(goForward(World))
    /\ Step
    /\ last' = Record("goForward", activeTabId,
                      BrowserState_goForward(tabs, activeTabId).url # NoUrl,
                      BrowserState_goForward(tabs, activeTabId).url, FALSE)
    /\ UNCHANGED <<detached, now>>

\* click on reloadBtn
Reload ==
    /\ Commit(reload(World))
    /\ Step
    /\ last' = Record("reload", activeTabId, TRUE, NoUrl, FALSE)
    /\ UNCHANGED <<detached, now>>

\* a callback of the iframe of the i-th tab ran and left [w, f]
CommitFrame(i, r) ==
    /\ tabs' = [r.w.tabs EXCEPT ![i].iframe = r.f]
    /\ activeTabId' = r.w.activeTabId
    /\ ui' = r.w.ui

\* the iframe of the i-th tab fires 'load'
IframeLoad(i) ==
    LET f == tabs[i].iframe IN
    /\ f.exists /\ f.inflight
    /\ CommitFrame(i, onLoad(World, f))
    /\ Step
    /\ last' = Record("load", f.owner, TRUE, f.src, FALSE)
    /\ UNCHANGED <<detached, now>>

\* the iframe of the i-th tab fires 'error'
IframeError(i) ==
    LET f == tabs[i].iframe IN
    /\ f.exists /\ f.inflight
    /\ CommitFrame(i, onError(World, f))
    /\ Step
    /\ last' = Record("error", f.owner, TRUE, f.src, FALSE)
    /\ UNCHANGED <<detached, now>>

\* the deadline of the iframe of the i-th tab expires; timers expire in the
\* order of their due times, and a settle timer still pending was set before
\* the deadline (a later load would have cleared it) with a shorter delay
LoadTimeoutFires(i) ==
    LET f == tabs[i].iframe IN
    /\ f.exists /\ f.loadTimeout # << >>
    /\ f.settle = << >>
    /\ CommitFrame(i, onLoadTimeout(World, f))
    /\ Step
    /\ last' = Record("loadTimeout", f.owner, f.src = f.loadTimeout[1].url,
                      f.loadTimeout[1].url, FALSE)
    /\ UNCHANGED <<detached, now>>

\* the oldest settle timer of the iframe of the i-th tab expires
SettleFires(i, insp) ==
    LET f == tabs[i].iframe IN
    /\ f.exists /\ f.settle # << >>
    /\ CommitFrame(i, onSettle(World, f, TRUE, insp))
    /\ Step
    /\ last' = Record("settle", f.owner, TRUE, f.src, Head(f.settle).stale)
    /\ UNCHANGED <<detached, now>>

\* the oldest re-check timer of the iframe of the i-th tab expires
RecheckFires(i, insp) ==
    LET f == tabs[i].iframe IN
    /\ f.exists /\ f.recheck # << >>
    /\ CommitFrame(i, onRecheck(World, f, TRUE, insp))
    /\ Step
    /\ last' = Record("recheck", f.owner, TRUE, f.src, Head(f.recheck).stale)
    /\ UNCHANGED <<detached, now>>

\* a callback of the k-th removed iframe ran and left [w, f]
CommitDetached(k, r) ==
    /\ Commit(r.w)
    /\ detached' = Pending([detached EXCEPT ![k] = r.f])

Refused == [kind |-> "refused", title |-> << >>]

\* a timer of an iframe whose tab was closed expires
DetachedLoadTimeoutFires(k) ==
    LET f == detached[k] IN
    /\ f.loadTimeout # << >>
    /\ f.settle = << >>
    /\ CommitDetached(k, onLoadTimeout(World, f))
    /\ Step
    /\ last' = Record("detachedLoadTimeout", f.owner, TRUE, f.loadTimeout[1].url, FALSE)
    /\ UNCHANGED now

DetachedSettleFires(k) ==
    LET f == detached[k] IN
    /\ f.settle # << >>
    /\ CommitDetached(k, onSettle(World, f, FALSE, Refused))
    /\ Step
    /\ last' = Record("detachedSettle", f.owner, TRUE, f.src, Head(f.settle).stale)
    /\ UNCHANGED now

DetachedRecheckFires(k) ==
    LET f == detached[k] IN
    /\ f.recheck # << >>
    /\ CommitDetached(k, onRecheck(World, f, FALSE, Refused))
    /\ Step
    /\ last' = Record("detachedRecheck", f.owner, TRUE, f.src, Head(f.recheck).stale)
    /\ UNCHANGED now

Next ==
    \/ Tick
    \/ AddTab
    \/ \E i \in 1..Len(tabs) : CloseTab(i)
    \/ \E i \in 1..Len(tabs) : SwitchTab(i)
    \/ \E raw \in RawInputs : NavigateToUrl(raw)
    \/ Retry
    \/ GoBack
    \/ GoForward
    \/ Reload
    \/ \E i \in 1..Len(tabs) : IframeLoad(i)
    \/ \E i \in 1..Len(tabs) : IframeError(i)
    \/ \E i \in 1..Len(tabs) : LoadTimeoutFires(i)
    \/ \E i \in 1..Len(tabs) : \E insp \in Inspections : SettleFires(i, insp)
    \/ \E i \in 1..Len(tabs) : \E insp \in Inspections : RecheckFires(i, insp)
    \/ \E k \in 1..Len(detached) : DetachedLoadTimeoutFires(k)
    \/ \E k \in 1..Len(detached) : DetachedSettleFires(k)
    \/ \E k \in 1..Len(detached) : DetachedRecheckFires(k)

Spec == Init /\ [][Next]_vars

(***************************************************************************)
(* SpecState: the BrowserState class driven directly, method by method,    *)
(* with ids that are present and one that is not.                          *)
(***************************************************************************)
ApiUrls == { <<"a">>, <<"b">>, <<"c">>, <<"d">> }

\* an id no tab carries
MissingId == MaxSteps + 1

ApiIds == { tabs[i].id : i \in 1..Len(tabs) } \cup { MissingId }

ApiAddTab ==
    LET r == BrowserState_addTab(tabs, NoUrl, now) IN
    /\ tabs' = r.tabs
    /\ Step
    /\ last' = Record("addTab", r.id, r.ok, NoUrl, FALSE)
    /\ UNCHANGED <<activeTabId, detached, now, ui>>

ApiRemoveTab(tabId) ==
    LET r == BrowserState_removeTab(tabs, activeTabId, tabId) IN
    /\ tabs' = r.tabs
    /\ activeTabId' = r.activeTabId
    /\ detached' = Pending(Append(detached, [r.removed EXCEPT !.inflight = FALSE]))
    /\ Step
    /\ last' = Record("removeTab", tabId, FindIndex(tabs, tabId) # 0, NoUrl, FALSE)
    /\ UNCHANGED <<now, ui>>

ApiAddToHistory(tabId, url) ==
    /\ tabs' = BrowserState_addToHistory(tabs, tabId, url)
    /\ Step
    /\ last' = Record("addToHistory", tabId, FindIndex(tabs, tabId) # 0, url, FALSE)
    /\ UNCHANGED <<activeTabId, detached, now, ui>>

ApiGoBack(tabId) ==
    LET r == BrowserState_goBack(tabs, tabId) IN
    /\ tabs' = r.tabs
    /\ Step
    /\ last' = Record("goBack", tabId, r.url # NoUrl, r.url, FALSE)
    /\ UNCHANGED <<activeTabId, detached, now, ui>>

ApiGoForward(tabId) ==
    LET r == BrowserState_goForward(tabs, tabId) IN
    /\ tabs' = r.tabs
    /\ Step
    /\ last' = Record("goForward", tabId, r.url # NoUrl, r.url, FALSE)
    /\ UNCHANGED <<activeTabId, detached, now, ui>>

NextState ==
    \/ Tick
    \/ ApiAddTab
    \/ \E tabId \in ApiIds : ApiRemoveTab(tabId)
    \/ \E tabId \in ApiIds : \E url \in ApiUrls : ApiAddToHistory(tabId, url)
    \/ \E tabId \in ApiIds : ApiGoBack(tabId)
    \/ \E tabId \in ApiIds : ApiGoForward(tabId)

SpecState == Init /\ [][NextState]_vars

(***************************************************************************)
(* SpecCalls: the page with its global functions switchTab and closeTab    *)
(* called directly, with ids that are present and one that is not.         *)
(***************************************************************************)
\* switchTab(tabId), for any id
CallSwitchTab(tabId) ==
    /\ Commit(switchTab(World, tabId))
    /\ Step
    /\ last' = Record("switchTab", tabId, FindIndex(tabs, tabId) # 0, NoUrl, FALSE)
    /\ UNCHANGED <<detached, now>>

\* closeTab(tabId), for any id
CallCloseTab(tabId) ==
    LET removed == IF CloseTabRefuses(tabs) THEN NoFrame
                   ELSE BrowserState_removeTab(tabs, activeTabId, tabId).removed
    IN
    /\ Commit(closeTab(World, tabId))
    /\ detached' = Pending(Append(detached, [removed EXCEPT !.inflight = FALSE]))
    /\ Step
    /\ last' = Record("closeTab", tabId, ~CloseTabRefuses(tabs), NoUrl, FALSE)
    /\ UNCHANGED now

NextCalls ==
    \/ Tick
    \/ AddTab
    \/ \E raw \in RawInputs : NavigateToUrl(raw)
    \/ \E i \in 1..Len(tabs) : IframeLoad(i)
    \/ \E i \in 1..Len(tabs) : IframeError(i)
    \/ \E tabId \in ApiIds : CallSwitchTab(tabId)
    \/ \E tabId \in ApiIds : CallCloseTab(tabId)

SpecCalls == Init /\ [][NextCalls]_vars

(***************************************************************************)
(* SpecSanitize: the page with some text in the address bar, and the Enter *)
(* key as the only event.                                                  *)
(***************************************************************************)
\* the characters of the texts below
TypedChars == {"a", ".", " ", LoneSurrogate}

\* what the address bar may hold: every text of up to three of the
\* characters above, and some with a scheme
TypedInputs ==
    { << >> }
      \cup { <<c>> : c \in TypedChars }
      \cup { <<c, d>> : c \in TypedChars, d \in TypedChars }
      \cup { <<c, d, e>> : c \in TypedChars, d \in TypedChars, e \in TypedChars }
      \cup { HttpPrefix \o <<"c">>, HttpsPrefix \o <<"c", " ">>,
              <<" ">> \o HttpPrefix \o <<"c">>, HttpPrefix,
              HttpsPrefix \o <<LoneSurrogate>> }

\* the page after initBrowser, the user having typed into the address bar
InitSanitize ==
    /\ tabs = initBrowser.tabs
    /\ activeTabId = initBrowser.activeTabId
    /\ ui \in { [initBrowser.ui EXCEPT !.addressBar = typed] : typed \in TypedInputs }
    /\ detached = << >>
    /\ now = 0
    /\ last = Record("initBrowser", NoTab, TRUE, NoUrl, FALSE)
    /\ steps = 0

\* Enter in the address bar: navigateToUrl(addressBar.value)
Enter == NavigateToUrl(ui.addressBar)

NextSanitize == Enter

SpecSanitize == InitSanitize /\ [][NextSanitize]_vars

(***************************************************************************)
(* Properties.                                                             *)
(***************************************************************************)
\* the tabs' titles, in order
Titles(ts) == [i \in 1..Len(ts) |-> ts[i].title]

\* C1: a callback of a load attempt that a later navigateToUrl on the same
\* tab superseded before it resolved leaves the error panel, the loading
\* indicator and every tab title as they were when it fires.
C1_StaleCallbackInert ==
    [][ (last'.op \in {"settle", "recheck", "loadTimeout"} /\ last'.stale)
          => /\ ui'.error = ui.error
             /\ ui'.loading = ui.loading
             /\ Titles(tabs') = Titles(tabs) ]_vars

\* C2: every navigateToUrl leaves its iframe with a pending deadline and the
\* loading indicator on; and when the deadline of the attempt the iframe is
\* still on expires (no load and no error signal came, they cancel it), the
\* loading indicator is cleared and the error panel is shown for that URL.
C2_DeadlineTimesOut ==
    [][ /\ last'.op = "navigateToUrl"
           => LET i == getActiveTab(tabs', activeTabId') IN
              /\ tabs'[i].iframe.loadTimeout = << [url |-> last'.url] >>
              /\ ui'.loading
        /\ (last'.op = "loadTimeout" /\ last'.ok)
           => /\ ~ui'.loading
              /\ ui'.error = "flex"
              /\ ui'.errorUrl = last'.url ]_vars

\* C3: every tab's historyIndex is -1 when its history is empty and otherwise
\* an index into the history.
C3_PositionInRange ==
    \A i \in 1..Len(tabs) :
        IF tabs[i].history = << >>
        THEN tabs[i].historyIndex = -1
        ELSE tabs[i].historyIndex \in 0..(Len(tabs[i].history) - 1)

\* C3 witness: after a goBack one tab stands on the first of two entries while
\* another tab has no history at all.
C3_Witness ==
    /\ last.op = "goBack" /\ last.ok
    /\ \E i \in 1..Len(tabs) :
          Len(tabs[i].history) = 2 /\ tabs[i].historyIndex = 0
    /\ \E i \in 1..Len(tabs) :
          tabs[i].history = << >> /\ tabs[i].historyIndex = -1

\* C4: addToHistory(url) on entries E at position p leaves E[0..p] followed by
\* url, the position on the last entry, and no way forward.
C4_PushTruncates ==
    [][ (last'.op = "addToHistory" /\ last'.ok)
          => LET i == FindIndex(tabs, last'.tab) IN
             /\ tabs'[i].history =
                  SubSeq(tabs[i].history, 1, tabs[i].historyIndex + 1)
                    \o << last'.url >>
             /\ tabs'[i].historyIndex = Len(tabs'[i].history) - 1
             /\ ~BrowserState_canGoForward(tabs', last'.tab) ]_vars

\* C4 witness: a, b, c pushed, back twice, d pushed: [a, d] at position 1, the
\* push having discarded two forward entries.
C4_Witness ==
    /\ last.op = "addToHistory" /\ last.ok /\ last.dropped = 2
    /\ last.url = <<"d">>
    /\ LET i == FindIndex(tabs, last.tab) IN
       /\ tabs[i].history = << <<"a">>, <<"d">> >>
       /\ tabs[i].historyIndex = 1
       /\ ~BrowserState_canGoForward(tabs, last.tab)

\* the tabs' histories, in order
Histories(ts) == [i \in 1..Len(ts) |-> ts[i].history]

\* C5: goBack succeeds exactly when the position is > 0 and goForward exactly
\* when it is < len - 1; a success moves the position by one and returns the
\* entry there; otherwise null is returned and nothing changes.  Entries never
\* change.
C5_BackForward ==
    [][ LET i == FindIndex(tabs, last'.tab) IN
        /\ last'.op = "goBack"
           => /\ Histories(tabs') = Histories(tabs)
              /\ IF i # 0 /\ tabs[i].historyIndex > 0
                 THEN /\ last'.ok
                      /\ tabs'[i].historyIndex = tabs[i].historyIndex - 1
                      /\ last'.url = tabs[i].history[tabs'[i].historyIndex + 1]
                 ELSE ~last'.ok /\ last'.url = NoUrl /\ tabs' = tabs
        /\ last'.op = "goForward"
           => /\ Histories(tabs') = Histories(tabs)
              /\ IF i # 0 /\ tabs[i].historyIndex < Len(tabs[i].history) - 1
                 THEN /\ last'.ok
                      /\ tabs'[i].historyIndex = tabs[i].historyIndex + 1
                      /\ last'.url = tabs[i].history[tabs'[i].historyIndex + 1]
                 ELSE ~last'.ok /\ last'.url = NoUrl /\ tabs' = tabs ]_vars

\* C5 witness: goBack was refused on a tab standing on the first of its
\* entries, after a goForward had been refused or not.
C5_Witness ==
    /\ last.op = "goBack" /\ ~last.ok
    /\ LET i == FindIndex(tabs, last.tab) IN
       i # 0 /\ Len(tabs[i].history) >= 2 /\ tabs[i].historyIndex = 0

\* C6: there are never more than maxTabs tabs; addTab at capacity returns no
\* tab and leaves tabs and activeTabId alone.
C6_Capacity ==
    [][ /\ Len(tabs) <= maxTabs
        /\ Len(tabs') <= maxTabs
        /\ (last'.op = "addTab" /\ Len(tabs) = maxTabs)
           => ~last'.ok /\ tabs' = tabs /\ activeTabId' = activeTabId ]_vars

\* C6 witness: an addTab was rejected at capacity.
C6_Witness ==
    last.op = "addTab" /\ ~last.ok /\ Len(tabs) = maxTabs

\* C7: activeTabId is null or the id of a tab in tabs.
C7_ActiveIdValid ==
    activeTabId = NoTab \/ \E i \in 1..Len(tabs) : tabs[i].id = activeTabId

\* C7 witness: the active tab was closed, its id is gone, and activeTabId
\* names a tab that remains.
C7_Witness ==
    /\ last.op = "closeTab" /\ last.ok /\ last.prevActive = last.tab
    /\ \A i \in 1..Len(tabs) : tabs[i].id # last.tab
    /\ \E i \in 1..Len(tabs) : tabs[i].id = activeTabId

\* C8: the tabs in the registry have pairwise distinct ids.
C8_UniqueIds ==
    \A i, j \in 1..Len(tabs) : i # j => tabs[i].id # tabs[j].id

\* what closeTab must leave of a tab: everything but its iframe's display
Kept(ts) ==
    [i \in 1..Len(ts) |-> [ts[i] EXCEPT !.iframe.display = "none"]]

\* C9: closing the active tab while others remain makes the first remaining
\* tab active; closing another tab leaves activeTabId alone; the remaining
\* tabs keep their order.
C9_CloseSelectsFirst ==
    [][ (last'.op = "closeTab" /\ last'.ok)
          => /\ Kept(tabs') = Kept(Splice(tabs, FindIndex(tabs, last'.tab)))
             /\ IF activeTabId = last'.tab
                THEN activeTabId' = tabs'[1].id
                ELSE activeTabId' = activeTabId ]_vars

\* C9 witness: the active tab was closed, two tabs with different ids remain,
\* and the first of them is active.
C9_Witness ==
    /\ last.op = "closeTab" /\ last.ok /\ last.prevActive = last.tab
    /\ Len(tabs) = 2 /\ tabs[1].id # tabs[2].id
    /\ activeTabId = tabs[1].id

\* C10: closeTab on the sole tab changes neither tabs nor activeTabId; there
\* is always at least one tab and an active id.
C10_SoleTabStays ==
    [][ /\ Len(tabs) >= 1 /\ activeTabId # NoTab
        /\ Len(tabs') >= 1 /\ activeTabId' # NoTab
        /\ (last'.op = "closeTab" /\ Len(tabs) = 1)
           => ~last'.ok /\ tabs' = tabs /\ activeTabId' = activeTabId ]_vars

\* C10 witness: closeTab was refused on the sole tab.
C10_Witness ==
    last.op = "closeTab" /\ ~last.ok /\ Len(tabs) = 1 /\ activeTabId = tabs[1].id

\* C11: switchTab(id) makes id the active id when a tab carries it; when no
\* tab carries it, activeTabId and the tabs stay as they were.
C11_ActivateAbsentNoOp ==
    [][ last'.op = "switchTab"
          => IF FindIndex(tabs, last'.tab) # 0
             THEN activeTabId' = last'.tab
             ELSE activeTabId' = activeTabId /\ tabs' = tabs ]_vars

\* C12: closeTab(id) with an id no tab carries leaves the tabs (their
\* histories and iframes included), the removed iframes and activeTabId as
\* they were.
C12_CloseUnknownNoOp ==
    [][ (last'.op = "closeTab" /\ FindIndex(tabs, last'.tab) = 0)
          => /\ tabs' = tabs
             /\ activeTabId' = activeTabId
             /\ detached' = detached ]_vars

\* C12 witness: closeTab ran past its sole-tab guard with an id no tab
\* carries, while two tabs were open and the active one had navigated.
C12_Witness ==
    /\ last.op = "closeTab" /\ last.ok /\ last.tab = MissingId
    /\ Len(tabs) = 2
    /\ \E i \in 1..Len(tabs) :
          tabs[i].id = activeTabId /\ tabs[i].iframe.exists /\ tabs[i].history # << >>

\* the shape the page has after a failed load of url: no loading indicator,
\* the error panel with a message and with url on it (the URL that retryBtn
\* and openInNewWindowBtn take)
FailureShape(u, url) ==
    /\ ~u.loading
    /\ u.error = "flex"
    /\ u.errorText.kind # "none"
    /\ u.errorUrl = url

\* C13: when the attempt the active tab's iframe is on ends without a loaded
\* page (the error listener runs, the deadline callback finds nothing loaded,
\* or the re-check finds the content still out of reach), the loading
\* indicator is off and the error panel shows a message and the URL of that
\* attempt.
C13_FailureShape ==
    [][ \A i \in 1..Len(tabs) :
          tabs[i].id = activeTabId =>
            /\ IframeError(i) => FailureShape(ui', tabs[i].iframe.src)
            /\ (LoadTimeoutFires(i) /\ DeadlineActs(tabs[i].iframe)
                  /\ tabs[i].iframe.src = tabs[i].iframe.loadTimeout[1].url)
               => FailureShape(ui', tabs[i].iframe.src)
            /\ (RecheckFires(i, Refused) /\ ~Head(tabs[i].iframe.recheck).stale)
               => FailureShape(ui', tabs[i].iframe.src) ]_vars

HostnameLike(t) ==
    /\ Includes(t, ".")
    /\ ~HasWhitespace(t)
    /\ URLParses(HttpsPrefix \o t)

\* the URL the precedence gives for the text t
Normalized(t) ==
    IF t = << >> THEN DefaultUrl
    ELSE IF StartsWith(t, HttpPrefix) \/ StartsWith(t, HttpsPrefix) THEN t
    ELSE IF HostnameLike(t) THEN HttpsPrefix \o t
    ELSE SearchPrefix \o EncodeAll(t)

\* C16: Enter on any text in the address bar normalizes it without failing,
\* and the URL navigated to is the one the precedence gives for the text less
\* its leading and trailing whitespace: the default URL for no text, the text
\* itself under http:// or https://, "https://" and the text when it is
\* hostname-like, the search URL with the encoded text otherwise.
C16_SanitizeTotal ==
    [][ last'.op = "navigateToUrl"
          => /\ last'.url # URIError
             /\ last'.url = Normalized(Trim(ui.addressBar))
             /\ ui'.addressBar = last'.url ]_vars

\* C17: once the deadline callback has resolved a load as timed out, the
\* 'load' signal that comes late and the check it schedules (no newer load
\* having started on the iframe) leave the error panel, the loading
\* indicator and the tab titles as the timeout left them.
C17_OutcomeTerminal ==
    [][ \A i \in 1..Len(tabs) :
          /\ (IframeLoad(i) /\ TimedOutBefore(tabs[i].iframe))
             => /\ ui'.error = ui.error
                /\ ui'.loading = ui.loading
          /\ \A insp \in Inspections :
               (SettleFires(i, insp) /\ Head(tabs[i].iframe.settle).late
                  /\ ~Head(tabs[i].iframe.settle).old)
                 => /\ ui'.error = ui.error
                    /\ ui'.loading = ui.loading
                    /\ Titles(tabs') = Titles(tabs) ]_vars

\* C18: a signal or a timer of the iframe of a tab that is not the active one
\* leaves the loading indicator and the error panel as they were.
C18_InactiveTabSilent ==
    [][ \A i \in 1..Len(tabs) :
          (/\ tabs[i].id # activeTabId
           /\ \/ IframeLoad(i)
              \/ IframeError(i)
              \/ LoadTimeoutFires(i)
              \/ \E insp \in Inspections : SettleFires(i, insp)
              \/ \E insp \in Inspections : RecheckFires(i, insp))
            => /\ ui'.loading = ui.loading
               /\ ui'.error = ui.error
               /\ ui'.errorUrl = ui.errorUrl ]_vars

\* C19: no timer of a superseded or closed attempt is left pending: after
\* navigateToUrl started a new load on an iframe no check or re-check of an
\* earlier load of it is pending and its only deadline is the new one, and no
\* iframe of a closed tab has a timer pending.
C19_TimersCancelled ==
    /\ \A i \in 1..Len(tabs) :
         LET f == tabs[i].iframe IN
         /\ \A k \in 1..Len(f.settle) : ~f.settle[k].stale
         /\ \A k \in 1..Len(f.recheck) : ~f.recheck[k].stale
         /\ Len(f.loadTimeout) <= 1
    /\ \A k \in 1..Len(detached) : FrameTimers(detached[k]) = 0

\* C20: a goBack or goForward that moves leaves the active tab's url at the
\* history entry of the new position, the iframe loading that URL, the
\* loading indicator on, and a deadline pending for that URL.
C20_BackForwardMonitored ==
    [][ (last'.op \in {"goBack", "goForward"} /\ last'.ok)
          => LET i == getActiveTab(tabs', activeTabId') IN
             /\ tabs'[i].url = tabs'[i].history[tabs'[i].historyIndex + 1]
             /\ tabs'[i].url = last'.url
             /\ tabs'[i].iframe.src = last'.url
             /\ tabs'[i].iframe.inflight
             /\ ui'.loading
             /\ tabs'[i].iframe.loadTimeout = << [url |-> last'.url] >> ]_vars

\* C21: navigateToUrl(raw) on the active tab, u being the normalized raw,
\* leaves the tab's url at u, its history cut after the old position with u
\* appended and the position on u, its iframe existing and loading u with a
\* deadline pending for u and no signal counted yet for this load, the
\* loading indicator on and the error panel hidden.
C21_NavigatePostState ==
    [][ (last'.op = "navigateToUrl" /\ last'.ok)
          => LET i == getActiveTab(tabs, activeTabId)
                 u == last'.url
             IN
             /\ tabs'[i].url = u
             /\ tabs'[i].history =
                  SubSeq(tabs[i].history, 1, tabs[i].historyIndex + 1) \o << u >>
             /\ tabs'[i].historyIndex = Len(tabs'[i].history) - 1
             /\ tabs'[i].iframe.exists
             /\ tabs'[i].iframe.src = u
             /\ tabs'[i].iframe.inflight
             /\ tabs'[i].iframe.loadTimeout = << [url |-> u] >>
             /\ ~tabs'[i].iframe.hasLoaded
             /\ ui'.loading
             /\ ui'.error = "none" ]_vars

\* C22: the 'error' signal of a tab's iframe, in the one step, turns the
\* loading indicator off and shows the error panel with the iframe's URL and
\* the "failed to load" message, cancels the iframe's deadline and schedules
\* no check and no re-check.
C22_ErrorImmediate ==
    [][ \A i \in 1..Len(tabs) :
          IframeError(i)
            => /\ ~ui'.loading
               /\ ui'.error = "flex"
               /\ ui'.errorText.kind = "failed"
               /\ ui'.errorUrl = tabs[i].iframe.src
               /\ tabs'[i].iframe.loadTimeout = << >>
               /\ tabs'[i].iframe.settle = tabs[i].iframe.settle
               /\ tabs'[i].iframe.recheck = tabs[i].iframe.recheck ]_vars

\* C22 witness: navigateToUrl, then 'error': the panel is up with the
\* navigated URL, the indicator is off, and the iframe has no timer pending.
C22_Witness ==
    /\ last.op = "error" /\ last.tab = activeTabId
    /\ steps = 2
    /\ ~ui.loading /\ ui.error = "flex" /\ ui.errorText.kind = "failed"
    /\ LET i == getActiveTab(tabs, activeTabId) IN
       /\ ui.errorUrl = tabs[i].url
       /\ tabs[i].iframe.src = tabs[i].url
       /\ FrameTimers(tabs[i].iframe) = 0

\* C23: after switchTab ran (on a click on a tab, or inside addTab or
\* closeTab), the iframe of every tab other than the active one is hidden;
\* the active tab's iframe, when it has one, is the one displayed and the
\* placeholder is hidden; when it has none, no iframe is displayed and the
\* placeholder is shown in place of the iframe container.
C23_SwitchShowsActiveOnly ==
    [][ (last'.op \in {"switchTab", "addTab", "closeTab"} /\ last'.ok)
          => LET a == getActiveTab(tabs', activeTabId') IN
             /\ a # 0
             /\ \A j \in 1..Len(tabs') :
                  j # a => tabs'[j].iframe.display = "none"
             /\ IF tabs'[a].iframe.exists
                THEN /\ tabs'[a].iframe.display = "block"
                     /\ ui'.welcome = "none"
                     /\ ui'.container = "block"
                ELSE /\ ui'.welcome = "flex"
                     /\ ui'.container = "none" ]_vars

\* C23 witness: a click switched to a tab that never navigated while another
\* tab has an iframe: that iframe is hidden and the placeholder is shown.
C23_Witness ==
    /\ last.op = "switchTab" /\ last.prevActive # activeTabId
    /\ LET a == getActiveTab(tabs, activeTabId) IN
       /\ ~tabs[a].iframe.exists
       /\ ui.welcome = "flex" /\ ui.container = "none"
       /\ \E j \in 1..Len(tabs) :
            /\ tabs[j].id = last.prevActive
            /\ tabs[j].iframe.exists
            /\ tabs[j].iframe.display = "none"

\* what a tab's navigation state is: entries, position and url
NavState(t) == [history |-> t.history, historyIndex |-> t.historyIndex, url |-> t.url]

\* C24: navigateToUrl, retry, goBack and goForward change the history, the
\* position and the url of no tab but the active one, and a tab switch, a
\* reload or a callback of an iframe changes those of no tab at all.
C24_HistoryPerTab ==
    [][ /\ last'.op \in {"navigateToUrl", "retry", "goBack", "goForward"}
           => /\ Len(tabs') = Len(tabs)
              /\ \A j \in 1..Len(tabs) :
                   j # getActiveTab(tabs, activeTabId)
                     => NavState(tabs'[j]) = NavState(tabs[j])
        /\ last'.op \in {"switchTab", "reload", "load", "error", "loadTimeout",
                         "settle", "recheck", "detachedLoadTimeout",
                         "detachedSettle", "detachedRecheck"}
           => /\ Len(tabs') = Len(tabs)
              /\ \A j \in 1..Len(tabs) : NavState(tabs'[j]) = NavState(tabs[j]) ]_vars

\* C24 witness: a navigateToUrl in one tab, while another tab stands on a
\* different URL with a history of its own.
C24_Witness ==
    /\ last.op = "navigateToUrl" /\ last.ok
    /\ \E j \in 1..Len(tabs) :
         /\ tabs[j].id # activeTabId
         /\ tabs[j].history # << >>
         /\ tabs[j].url # last.url
         /\ tabs[j].history = << tabs[j].url >>

\* C25: the url of every tab with a non-empty history is the history entry
\* at the tab's position.
C25_UrlIsCurrentEntry ==
    \A i \in 1..Len(tabs) :
        tabs[i].history # << >>
          => /\ tabs[i].historyIndex + 1 \in 1..Len(tabs[i].history)
             /\ tabs[i].url = tabs[i].history[tabs[i].historyIndex + 1]

\* C25 witness: a goBack left a tab on the first of two different entries,
\* and its url is that entry.
C25_Witness ==
    /\ last.op = "goBack" /\ last.ok
    /\ LET i == getActiveTab(tabs, activeTabId) IN
       /\ Len(tabs[i].history) = 2
       /\ tabs[i].history[1] # tabs[i].history[2]
       /\ tabs[i].historyIndex = 0
       /\ tabs[i].url = tabs[i].history[1]

\* the number of viewport panels displayed: placeholder, iframe container,
\* error panel
PanelsVisible(u) ==
    (IF u.welcome # "none" THEN 1 ELSE 0)
      + (IF u.container # "none" THEN 1 ELSE 0)
      + (IF u.error # "none" THEN 1 ELSE 0)

\* C26: exactly one of the placeholder, the iframe container and the error
\* panel is displayed.
C26_OnePanelVisible == PanelsVisible(ui) = 1

\* C27: for every tab id, in every state the BrowserState methods reach:
\* when canGoBack holds, goBack followed by goForward leaves the tabs
\* (entries and position) as they were and goForward returns the entry that
\* was current; when canGoForward holds, goForward followed by goBack does
\* the same.
C27_BackForwardInverse ==
    \A tabId \in ApiIds :
        LET i == FindIndex(tabs, tabId) IN
        /\ BrowserState_canGoBack(tabs, tabId)
           => LET b == BrowserState_goBack(tabs, tabId)
                  f == BrowserState_goForward(b.tabs, tabId)
              IN /\ b.tabs[i].historyIndex = tabs[i].historyIndex - 1
                 /\ b.tabs[i].history = tabs[i].history
                 /\ f.tabs = tabs
                 /\ f.url = tabs[i].history[tabs[i].historyIndex + 1]
        /\ BrowserState_canGoForward(tabs, tabId)
           => LET f == BrowserState_goForward(tabs, tabId)
                  b == BrowserState_goBack(f.tabs, tabId)
              IN /\ f.tabs[i].historyIndex = tabs[i].historyIndex + 1
                 /\ f.tabs[i].history = tabs[i].history
                 /\ b.tabs = tabs
                 /\ b.url = HistoryAt(tabs[i].history, tabs[i].historyIndex)

\* C27 witness: a goBack left a tab in the middle of three different
\* entries, where both moves are possible.
C27_Witness ==
    /\ last.op = "goBack" /\ last.ok
    /\ LET i == FindIndex(tabs, last.tab) IN
       /\ i # 0
       /\ Len(tabs[i].history) = 3
       /\ tabs[i].historyIndex = 1
       /\ tabs[i].history[1] # tabs[i].history[2]
       /\ tabs[i].history[2] # tabs[i].history[3]
       /\ BrowserState_canGoBack(tabs, last.tab)
       /\ BrowserState_canGoForward(tabs, last.tab)

=============================================================================
